---------------------------- MODULE Spec2Model ----------------------------
(***************************************************************************)
(* Model of the phishing-training simulation: the User class and its five  *)
(* variants (src/user.py) and the persistence / aggregation flow of        *)
(* src/main.py.                                                            *)
(*                                                                         *)
(* Probabilities are exact rationals <<num, den>>; a random.random() draw  *)
(* is one of the rationals of Draws, and  a < b  is decided by             *)
(* cross-multiplication.  The float division of the source is correctly    *)
(* rounded, so on these values the comparisons agree with the source's.    *)
(***************************************************************************)
EXTENDS Integers, Sequences, FiniteSets

VARIABLES
    outcomes,   \* SIMULATION_OUTCOMES, the vocabulary list the variants index
    uid,        \* User.id    per user
    utype,      \* User.type  per user
    uname,      \* User.name  per user
    history,    \* User.history per user: sequence of SimulationResult
    calls,      \* number of complete_simulation calls that returned normally
    last,       \* what the latest complete_simulation call did
    pc,         \* position of main(): "training", "stored", "done"
    table,      \* the persisted table (rows of DEFAULT_TABLE)
    report,     \* result of get_data_with_query__individuals
    chance      \* per user: value returned by a direct success_chance() call

vars == <<outcomes, uid, utype, uname, history, calls, last, pc, table, report, chance>>

---------------------------------------------------------------------------
(* Bounds of the model *)

MaxHistory == 2

MaxExposure == 4

Users == {"u1", "u2"}

Names == {"Ann", "Bob"}

\* the values random.random() returns in the model: below, at and above the
\* miss probabilities 1/10 and 1/2 and the first values of the two curves
Draws == {<<0, 1>>, <<1, 10>>, <<3, 20>>, <<3, 10>>, <<1, 2>>, <<9, 10>>}

---------------------------------------------------------------------------
(* Outcome vocabulary and the variants *)

SIMULATION_OUTCOMES == <<"SUCCESS", "MISS", "FAIL">>

Vocabulary == {"SUCCESS", "MISS", "FAIL"}

VocabularyOrders == {s \in [1..3 -> Vocabulary] : \A o \in Vocabulary : \E i \in 1..3 : s[i] = o}

QuickTypes == {"QuickLearner", "BusyQuickLearner"}

SlowTypes == {"SlowLearner", "BusySlowLearner"}

LearnerTypes == QuickTypes \cup SlowTypes

\* "Custom" stands for a subclass written by an implementer (User's docstring)
Variants == {"Dummy", "Custom"} \cup LearnerTypes

\* what a custom _get_simulation_outcome may return: anything, valid or not
CustomReturns == Vocabulary \cup {"INVALID"}

NoChance == <<0, 0>>

\* a < b for rationals with positive denominators
RatLess(a, b) == a[1] * b[2] < b[1] * a[2]

RatEq(a, b) == a[1] * b[2] = b[1] * a[2]

---------------------------------------------------------------------------
(* User: the pure reads *)

RECURSIVE CountNonMiss(_, _, _)
\* the loop of non_missed_simulations_completed: i over self.history
CountNonMiss(h, i, count) ==
    IF i > Len(h) THEN count
    ELSE CountNonMiss(h, i + 1, IF h[i].outcome # "MISS" THEN count + 1 ELSE count)

non_missed_off_by_one(h) == CountNonMiss(h, 1, 1)

counts_every_record(h) == Len(h)

non_missed_simulations_completed(h) == CountNonMiss(h, 1, 0)

simulations_completed(h) == Len(h)

---------------------------------------------------------------------------
(* The variants' policies *)

\* the constant the first draw is compared with
MissProbability(t) == IF t \in {"BusyQuickLearner", "BusySlowLearner"} THEN <<1, 2>> ELSE <<1, 10>>

quick_shifted(n) == <<n + 2, n + 10>>

QuickCurve(n) == <<n + 1, n + 10>>

slow_as_quick(n) == <<n + 1, n + 10>>

SlowCurve(n) == <<n + 3, n + 30>>

\* success_chance() of the four learner classes, over the user's history
success_chance(t, h) ==
    IF t \in QuickTypes THEN QuickCurve(non_missed_simulations_completed(h))
    ELSE SlowCurve(non_missed_simulations_completed(h))

\* which branch of the if / elif / else the two draws select
Branch(t, h, r1, r2) ==
    IF RatLess(r1, MissProbability(t)) THEN "miss"
    ELSE IF RatLess(r2, success_chance(t, h)) THEN "success"
    ELSE "fail"

\* the positional reads SIMULATION_OUTCOMES[1], [0], [2] (0-based in the source)
OutcomeOfBranch(voc, b) ==
    IF b = "miss" THEN voc[2] ELSE IF b = "success" THEN voc[1] ELSE voc[3]

---------------------------------------------------------------------------
(* User.complete_simulation *)

\* the timestamps the orchestration passes: one per simulated day
TrainingTimestamp(i) == <<2022, 1, i + 1, 0, 0, 0, 0>>

\* datetime.strftime(timestamp, "%Y-%m-%d %H:%M:%S"): microseconds are dropped
Strftime(dt) == SubSeq(dt, 1, 6)

SimulationResult(ts, id, t, nm, o) ==
    [timestamp |-> ts, user_id |-> id, type |-> t, name |-> nm, outcome |-> o]

always_valid(voc, o) == TRUE

\* outcome in SIMULATION_OUTCOMES
IsValidOutcome(voc, o) == \E i \in 1..Len(voc) : voc[i] = o

append_before_assert(h, rec, valid) == Append(h, rec)

prepend_result(h, rec, valid) == IF valid THEN <<rec>> \o h ELSE h

never_appends(h, rec, valid) == h

\* the assert, then self.history.append(...)
RecordResult(h, rec, valid) == IF valid THEN Append(h, rec) ELSE h

\* complete_simulation once _get_simulation_outcome has returned o on branch b
Complete(u, b, o, ch) ==
    LET valid == IsValidOutcome(outcomes, o)
        rec   == SimulationResult(Strftime(TrainingTimestamp(Len(history[u]))),
                                  uid[u], utype[u], uname[u], o)
    IN  /\ history' = [history EXCEPT ![u] = RecordResult(@, rec, valid)]
        /\ calls' = [calls EXCEPT ![u] = IF valid THEN @ + 1 ELSE @]
        /\ last' = [user |-> u, branch |-> b, chance |-> ch, outcome |-> o,
                    error |-> ~valid]
        /\ UNCHANGED <<outcomes, uid, utype, uname, pc, table, report, chance>>

CanCall(u) == pc = "training" /\ Len(history[u]) < MaxHistory

\* DummyUser: random.choice(SIMULATION_OUTCOMES)
DummyCompleteSimulation(u) ==
    /\ CanCall(u)
    /\ utype[u] = "Dummy"
    /\ \E i \in 1..Len(outcomes) : Complete(u, "choice", outcomes[i], NoChance)

\* a custom subclass: returns whatever its author wrote
CustomCompleteSimulation(u) ==
    /\ CanCall(u)
    /\ utype[u] = "Custom"
    /\ \E o \in CustomReturns : Complete(u, "custom", o, NoChance)

\* QuickLearner, SlowLearner, BusyQuickLearner, BusySlowLearner
LearnerCompleteSimulation(u) ==
    /\ CanCall(u)
    /\ utype[u] \in LearnerTypes
    /\ \E b \in {Branch(utype[u], history[u], r1, r2) : r1, r2 \in Draws} :
         Complete(u, b, OutcomeOfBranch(outcomes, b),
                  IF b = "miss" THEN NoChance ELSE success_chance(utype[u], history[u]))

---------------------------------------------------------------------------
(* main.py: persistence and the per-individual aggregation *)

RECURSIVE Flatten(_, _)
\* Organization.get_result: every user's full history, one row per result
Flatten(us, h) ==
    IF us = {} THEN <<>>
    ELSE LET u == CHOOSE x \in us : TRUE IN h[u] \o Flatten(us \ {u}, h)

\* create_records_into_db: to_sql(..., if_exists="replace")
CreateRecordsIntoDb ==
    /\ pc = "training"
    /\ table' = Flatten(Users, history)
    /\ pc' = "stored"
    /\ UNCHANGED <<outcomes, uid, utype, uname, history, calls, last, report, chance>>

Rows(t) == {t[i] : i \in 1..Len(t)}

count_fail_as_miss(t, id, o) ==
    Cardinality({i \in 1..Len(t) : t[i].user_id = id /\ t[i].outcome = (IF o = "MISS" THEN "FAIL" ELSE o)})

\* COUNT(CASE WHEN outcome = o THEN 1 END) within the group user_id = id
CountCase(t, id, o) ==
    Cardinality({i \in 1..Len(t) : t[i].user_id = id /\ t[i].outcome = o})

\* GROUP BY user_id
Groups(t) == {r.user_id : r \in Rows(t)}

\* get_data_with_query__individuals: name and type are bare columns, taken
\* from some row of the group
GetDataWithQueryIndividuals ==
    /\ pc = "stored"
    /\ \E pick \in [Groups(table) -> Rows(table)] :
         /\ \A g \in Groups(table) : pick[g].user_id = g
         /\ report' = {[user_id   |-> g,
                        name      |-> pick[g].name,
                        type      |-> pick[g].type,
                        successes |-> CountCase(table, g, "SUCCESS"),
                        fails     |-> CountCase(table, g, "FAIL"),
                        misses    |-> CountCase(table, g, "MISS")] : g \in Groups(table)}
    /\ pc' = "done"
    /\ UNCHANGED <<outcomes, uid, utype, uname, history, calls, last, table, chance>>

---------------------------------------------------------------------------
(* Specifications *)

NoCall == [user |-> "none", branch |-> "none", chance |-> NoChance,
           outcome |-> "none", error |-> FALSE]

\* The users are interchangeable and so are the names, so the variant mixes
\* and the name assignments are taken up to renaming: both users may be of
\* the same variant, and both may have been given the same first name.
VariantOrder == <<"Dummy", "Custom", "QuickLearner", "SlowLearner",
                  "BusyQuickLearner", "BusySlowLearner">>

Rank(t) == CHOOSE i \in 1..Len(VariantOrder) : VariantOrder[i] = t

Populations == {f \in [Users -> Variants] : Rank(f["u1"]) <= Rank(f["u2"])}

NameAssignments == {f \in [Users -> Names] : f["u1"] = "Ann"}

InitUsers ==
    /\ uid = [u \in Users |-> "id-" \o u]
    /\ utype \in Populations
    /\ uname \in NameAssignments
    /\ history = [u \in Users |-> <<>>]
    /\ calls = [u \in Users |-> 0]
    /\ last = NoCall
    /\ pc = "training"
    /\ table = <<>>
    /\ report = {}
    /\ chance = [u \in Users |-> NoChance]

Init == outcomes = SIMULATION_OUTCOMES /\ InitUsers

Next ==
    \/ \E u \in Users : DummyCompleteSimulation(u)
    \/ \E u \in Users : CustomCompleteSimulation(u)
    \/ \E u \in Users : LearnerCompleteSimulation(u)
    \/ CreateRecordsIntoDb
    \/ GetDataWithQueryIndividuals

Spec == Init /\ [][Next]_vars

\* the same program with the vocabulary list declared in any order
InitPerm == outcomes \in VocabularyOrders /\ InitUsers

SpecPerm == InitPerm /\ [][Next]_vars

---------------------------------------------------------------------------
(* The learning curves as pure functions: users that already hold a history *)
(* of m missed and n non-missed simulations, and direct success_chance()    *)
(* calls on them.                                                           *)

ExposureHistory(u, t, nm, m, n) ==
    [i \in 1..(m + n) |->
        SimulationResult(Strftime(TrainingTimestamp(i - 1)), "id-" \o u, t, nm,
                         IF i <= m THEN "MISS" ELSE "FAIL")]

InitCurve ==
    /\ outcomes = SIMULATION_OUTCOMES
    /\ uid = [u \in Users |-> "id-" \o u]
    /\ utype \in [Users -> LearnerTypes]
    /\ uname = [u \in Users |-> "Ann"]
    /\ \E m1, m2 \in 0..1, n1 \in 0..MaxExposure, n2 \in 0..(3 * MaxExposure) :
         history = [u \in Users |->
                      IF u = "u1" THEN ExposureHistory(u, utype[u], uname[u], m1, n1)
                      ELSE ExposureHistory(u, utype[u], uname[u], m2, n2)]
    /\ calls = [u \in Users |-> Len(history[u])]
    /\ last = NoCall
    /\ pc = "training"
    /\ table = <<>>
    /\ report = {}
    /\ chance = [u \in Users |-> NoChance]

EvalSuccessChance(u) ==
    /\ chance[u] = NoChance
    /\ chance' = [chance EXCEPT ![u] = success_chance(utype[u], history[u])]
    /\ UNCHANGED <<outcomes, uid, utype, uname, history, calls, last, pc, table, report>>

NextCurve == \E u \in Users : EvalSuccessChance(u)

SpecCurve == InitCurve /\ [][NextCurve]_vars

---------------------------------------------------------------------------
(* Properties *)

\* number of records of h whose outcome is o
Tally(h, o) == Cardinality({i \in 1..Len(h) : h[i].outcome = o})

\* number of records of h that are not a MISS
Exposure(h) == Cardinality({i \in 1..Len(h) : h[i].outcome # "MISS"})

IsPrefix(a, b) == Len(a) <= Len(b) /\ SubSeq(b, 1, Len(a)) = a

\* C1: after N complete_simulation calls that returned normally, the user's
\* simulations_completed is exactly N.
HistoryLengthIsCallCount ==
    \A u \in Users : simulations_completed(history[u]) = calls[u]

HistoryLengthWitness ==
    \E u \in Users : calls[u] = 2 /\ simulations_completed(history[u]) = 2

\* C2: every record of every user's history has an outcome of the vocabulary
\* {SUCCESS, MISS, FAIL}, whatever the variant and the draws.
OutcomesInVocabulary ==
    \A u \in Users : \A i \in 1..Len(history[u]) :
        history[u][i].outcome \in Vocabulary

OutcomesInVocabularyWitness ==
    \E u, v \in Users :
        /\ utype[u] = "Dummy" /\ utype[v] \in LearnerTypes
        /\ Len(history[u]) = 2 /\ Len(history[v]) = 2

\* C3: a call whose variant returned a value outside the vocabulary fails
\* with an error and leaves history, id, type and name as they were.
InvalidOutcomeAborts ==
    [][(last'.outcome \notin Vocabulary \cup {"none"})
          => /\ last'.error
             /\ UNCHANGED <<history, uid, utype, uname>>]_vars

InvalidOutcomeWitness ==
    /\ last.error
    /\ last.outcome = "INVALID"
    /\ utype[last.user] = "Custom"
    /\ Len(history[last.user]) = 1

\* C4: complete_simulation changes only the tail of the caller's history:
\* id, type and name stay, the old history is a prefix of the new one, and
\* no other user's history (nor anything else) changes.
CompleteSimulationFrame ==
    [][/\ uid' = uid /\ utype' = utype /\ uname' = uname
       /\ \A u \in Users : IsPrefix(history[u], history'[u])
       /\ \A u \in Users :
            history'[u] # history[u] =>
               /\ Len(history'[u]) = Len(history[u]) + 1
               /\ last'.user = u
               /\ \A v \in Users \ {u} : history'[v] = history[v]
               /\ UNCHANGED <<outcomes, pc, table, report>>]_vars

CompleteSimulationFrameWitness ==
    \E u, v \in Users : u # v /\ Len(history[u]) = 2 /\ Len(history[v]) = 1 /\ last.user = u

\* C5: non_missed_simulations_completed() <= simulations_completed for every
\* user, MISS records being excluded from the former only.
NonMissedAtMostCompleted ==
    \A u \in Users :
        /\ non_missed_simulations_completed(history[u]) <= simulations_completed(history[u])
        /\ simulations_completed(history[u]) - non_missed_simulations_completed(history[u])
             = Tally(history[u], "MISS")

NonMissedWitness ==
    \E u \in Users :
        /\ simulations_completed(history[u]) = 2
        /\ non_missed_simulations_completed(history[u]) = 1

\* C6: whatever the declaration order of the vocabulary, the miss branch of
\* a learner returns MISS, the success branch SUCCESS and the remaining
\* branch FAIL.
BranchesReturnByName ==
    /\ last.branch = "miss" => last.outcome = "MISS"
    /\ last.branch = "success" => last.outcome = "SUCCESS"
    /\ last.branch = "fail" => last.outcome = "FAIL"

\* C7: both curves are exactly 1/10 at n = 0, strictly below 1, and strictly
\* increasing in the non-missed count n.
CurvesStartAtTenthAndGrowBelowOne ==
    \A u \in Users :
        chance[u] # NoChance =>
            /\ Exposure(history[u]) = 0 => chance[u][1] * 10 = chance[u][2]
            /\ 0 < chance[u][1] /\ chance[u][1] < chance[u][2]
            /\ \A v \in Users :
                 (/\ chance[v] # NoChance
                  /\ (utype[u] \in QuickTypes <=> utype[v] \in QuickTypes)
                  /\ Exposure(history[u]) < Exposure(history[v]))
                     => RatLess(chance[u], chance[v])

CurvesWitness ==
    /\ utype["u1"] = "QuickLearner" /\ utype["u2"] = "BusyQuickLearner"
    /\ chance["u1"] # NoChance /\ chance["u2"] # NoChance
    /\ Exposure(history["u1"]) = 0 /\ Len(history["u1"]) = 1
    /\ Exposure(history["u2"]) = 1

\* C8: the slow chance at 3n equals the quick chance at n, and a Busy variant
\* has the chance of its non-Busy counterpart at the same n.
SlowIsQuickAtThreefoldExposure ==
    \A u, v \in Users :
        (chance[u] # NoChance /\ chance[v] # NoChance) =>
            /\ (/\ utype[u] \in QuickTypes /\ utype[v] \in SlowTypes
                /\ Exposure(history[v]) = 3 * Exposure(history[u]))
                  => RatEq(chance[v], chance[u])
            /\ (/\ (utype[u] \in QuickTypes <=> utype[v] \in QuickTypes)
                /\ Exposure(history[v]) = Exposure(history[u]))
                  => chance[v] = chance[u]

SlowIsQuickWitness ==
    /\ utype["u1"] = "QuickLearner" /\ utype["u2"] = "BusySlowLearner"
    /\ chance["u1"] # NoChance /\ chance["u2"] # NoChance
    /\ Exposure(history["u1"]) = 4 /\ Exposure(history["u2"]) = 12

\* C9: once the full histories are persisted, the per-individual aggregation
\* has exactly one row per user with a record, carrying that user's name and
\* type and its numbers of SUCCESS, FAIL and MISS records.
IndividualsReportMatchesHistories ==
    pc = "done" =>
        /\ \A u \in Users :
             Len(history[u]) > 0 =>
                /\ Cardinality({r \in report : r.user_id = uid[u]}) = 1
                /\ \A r \in report :
                     r.user_id = uid[u] =>
                        /\ r.name = uname[u] /\ r.type = utype[u]
                        /\ r.successes = Tally(history[u], "SUCCESS")
                        /\ r.fails = Tally(history[u], "FAIL")
                        /\ r.misses = Tally(history[u], "MISS")
                        /\ r.successes + r.fails + r.misses = simulations_completed(history[u])
        /\ \A r \in report : \E u \in Users : r.user_id = uid[u] /\ Len(history[u]) > 0

IndividualsReportWitness ==
    /\ pc = "done"
    /\ Cardinality(report) = 2
    /\ uname["u1"] = uname["u2"]
    /\ \E r \in report : r.misses = 1 /\ r.fails = 1
    /\ \E r \in report : r.successes = 1

\* C10: the chance that decides a learner's k-th event is the curve over the
\* non-missed count of its first k-1 records; the recorded event raises that
\* count by 1 unless it is a MISS.
ChanceUsesHistoryBeforeEvent ==
    [][\A u \in Users :
          (utype[u] \in LearnerTypes /\ history'[u] # history[u]) =>
             LET n   == Exposure(history[u])
                 new == history'[u][Len(history'[u])]
             IN  /\ last'.branch # "miss" =>
                      last'.chance = (IF utype[u] \in QuickTypes
                                      THEN <<n + 1, n + 10>> ELSE <<n + 3, n + 30>>)
                 /\ non_missed_simulations_completed(history'[u])
                      = n + (IF new.outcome = "MISS" THEN 0 ELSE 1)
                 /\ new.outcome = "MISS" <=> last'.branch = "miss"]_vars

ChanceUsesHistoryWitness ==
    \E u \in Users :
        /\ utype[u] \in SlowTypes
        /\ Len(history[u]) = 2
        /\ history[u][1].outcome = "MISS"
        /\ last.user = u
        /\ last.chance = <<3, 30>>

=============================================================================
